---- MODULE Spec2Model ----
(***************************************************************************)
(* Model of update_readme.py: the script that regenerates the skills table *)
(* of README.md from the SKILL.md frontmatter of the sibling directories.  *)
(*                                                                         *)
(* Text is a sequence of one-character strings, so that searching,         *)
(* slicing, splitting and trimming are computed as Python computes them.   *)
(***************************************************************************)
EXTENDS Integers, Sequences, FiniteSets, TLC

VARIABLES
    readme,         \* text of README.md on disk
    readme_exists,  \* whether README.md exists
    content,        \* update_readme: the text read from README.md
    table_lines,    \* update_readme: the generated lines passed in
    pc,             \* position of the running invocation
    err,            \* exception that ended the invocation, or "none"
    before,         \* text of README.md when the invocation started
    log,            \* file-system and process effects of the invocation, in order
    runs,           \* number of invocations started
    git,            \* outcome of `git remote get-url origin`: [ok, url]
    repo,           \* main: owner/repo
    root_exists,    \* whether the root directory can be listed
    entries,        \* directory entries directly under root
    skill_names,    \* main: result of list_skill_dirs
    text,           \* parse_frontmatter: text of the file read
    frontmatter     \* parse_frontmatter: the mapping returned

vars == <<readme, readme_exists, content, table_lines, pc, err, before, log,
          runs, git, repo, root_exists, entries, skill_names, text, frontmatter>>

fsVars    == <<readme, readme_exists>>
mainVars  == <<git, repo, root_exists, entries, skill_names>>
parseVars == <<text, frontmatter>>

----------------------------------------------------------------------------
(* Bounds *)

MaxMarkers == 2     \* marker occurrences in a README
MaxLines  == 2      \* generated lines passed to update_readme
MaxRuns   == 2      \* invocations on the same README
MaxFileLines == 4   \* lines of a file given to parse_frontmatter
MaxEntries == 3     \* entries directly under the root

----------------------------------------------------------------------------
(* Python string primitives *)

NL == "\n"

\* s[i:j] with 0 <= i, j (Python slice, clamped)
Slice(s, i, j) == SubSeq(s, i + 1, IF j > Len(s) THEN Len(s) ELSE j)

\* s[i:]
SliceFrom(s, i) == SubSeq(s, i + 1, Len(s))

\* s.find(sub): 0-based index of the first occurrence, -1 when absent
Find(sub, s) ==
    IF Len(sub) = 0 THEN 0
    ELSE LET hits == {i \in 0..(Len(s) - Len(sub)) :
                        s[i + 1] = sub[1] /\ SubSeq(s, i + 1, i + Len(sub)) = sub}
         IN  IF hits = {} THEN -1
             ELSE CHOOSE i \in hits : \A j \in hits : i <= j

\* sub in s
Contains(sub, s) == Find(sub, s) # -1

RECURSIVE Join(_, _)
\* sep.join(lines)
Join(sep, lines) ==
    IF Len(lines) = 0 THEN <<>>
    ELSE IF Len(lines) = 1 THEN lines[1]
    ELSE lines[1] \o sep \o Join(sep, Tail(lines))

\* all sequences over S of length 0..n
SeqsUpTo(S, n) == UNION {[1..k -> S] : k \in 0..n}

----------------------------------------------------------------------------
(* Module constants *)

TABLE_START == <<"<","!","-","-"," ","S","K","I","L","L","S","_","T","A","B","L","E","_","S","T","A","R","T"," ","-","-",">">>
TABLE_END == <<"<","!","-","-"," ","S","K","I","L","L","S","_","T","A","B","L","E","_","E","N","D"," ","-","-",">">>

----------------------------------------------------------------------------
(* update_readme *)

\* a guard that looks for the start marker only
MarkersMissing_StartOnly(c) == ~Contains(TABLE_START, c)

\* the guard of the RuntimeError
MarkersMissing(c) == ~Contains(TABLE_START, c) \/ ~Contains(TABLE_END, c)

\* content.index(TABLE_START) + len(TABLE_START)
start_idx(c) == Find(TABLE_START, c) + Len(TABLE_START)

\* content.index(TABLE_END)
end_idx(c) == Find(TABLE_END, c)

\* a splice that forgets the newline after the generated lines
new_content_NoTrailingNewline(c, lines) ==
    Slice(c, 0, start_idx(c)) \o <<NL>> \o Join(<<NL>>, lines)
        \o SliceFrom(c, end_idx(c))

\* a splice that resumes after the end marker instead of at it
new_content_DropEndMarker(c, lines) ==
    Slice(c, 0, start_idx(c)) \o <<NL>> \o Join(<<NL>>, lines) \o <<NL>>
        \o SliceFrom(c, end_idx(c) + Len(TABLE_END))

\* content[:start_idx] + "\n" + "\n".join(table_lines) + "\n" + content[end_idx:]
new_content(c, lines) ==
    Slice(c, 0, start_idx(c)) \o <<NL>> \o Join(<<NL>>, lines) \o <<NL>>
        \o SliceFrom(c, end_idx(c))

\* The outcome of update_readme on a README holding c: the exception raised
\* ("none" when it returns) and the text written (meaningful when it returns).
update_readme(c, lines) ==
    IF MarkersMissing(c)
    THEN [raised |-> "RuntimeError", written |-> FALSE, text |-> c]
    ELSE IF Find(TABLE_START, c) = -1 \/ Find(TABLE_END, c) = -1
    THEN [raised |-> "ValueError", written |-> FALSE, text |-> c]
    ELSE [raised |-> "none", written |-> TRUE, text |-> new_content(c, lines)]

----------------------------------------------------------------------------
(* More string primitives *)

Whitespace == {" ", NL, "\t"}

RECURSIVE LStrip(_)
LStrip(s) == IF Len(s) > 0 /\ s[1] \in Whitespace THEN LStrip(Tail(s)) ELSE s

RECURSIVE RStrip(_)
RStrip(s) ==
    IF Len(s) > 0 /\ s[Len(s)] \in Whitespace THEN RStrip(SubSeq(s, 1, Len(s) - 1)) ELSE s

\* s.strip()
Strip(s) == RStrip(LStrip(s))

RECURSIVE Split(_, _)
\* s.split(c) for a one-character separator c
Split(s, c) ==
    LET i == Find(<<c>>, s)
    IN  IF i = -1 THEN <<s>>
        ELSE <<Slice(s, 0, i)>> \o Split(SliceFrom(s, i + 1), c)

\* s.split(c, 1) for a one-character separator c that occurs in s
SplitOnce(s, c) ==
    LET i == Find(<<c>>, s)
    IN  <<Slice(s, 0, i), SliceFrom(s, i + 1)>>

RECURSIVE SplitLines(_)
\* s.splitlines(), for text whose only line boundary is "\n"
SplitLines(s) ==
    IF Len(s) = 0 THEN <<>>
    ELSE LET i == Find(<<NL>>, s)
         IN  IF i = -1 THEN <<s>>
             ELSE <<Slice(s, 0, i)>> \o SplitLines(SliceFrom(s, i + 1))

\* s.startswith(p)
StartsWith(s, p) == Len(s) >= Len(p) /\ SubSeq(s, 1, Len(p)) = p

\* s.removesuffix(p)
RemoveSuffix(s, p) ==
    IF Len(p) > 0 /\ Len(s) >= Len(p) /\ SubSeq(s, Len(s) - Len(p) + 1, Len(s)) = p
    THEN SubSeq(s, 1, Len(s) - Len(p))
    ELSE s

\* xs[-n:]
LastN(xs, n) == IF Len(xs) <= n THEN xs ELSE SubSeq(xs, Len(xs) - n + 1, Len(xs))

----------------------------------------------------------------------------
(* get_repo_name *)

GitAt == <<"g","i","t","@">>
DotGit == <<".","g","i","t">>

\* owner/repo from the stdout of `git remote get-url origin`
get_repo_name(stdout) ==
    LET url == Strip(stdout)
        path == IF StartsWith(url, GitAt)
                THEN LET parts == Split(url, ":") IN parts[Len(parts)]
                ELSE Join(<<"/">>, LastN(Split(url, "/"), 2))
    IN  RemoveSuffix(path, DotGit)

----------------------------------------------------------------------------
(* list_skill_dirs *)

\* code points of the characters names are made of
Ord(c) == CASE c = "." -> 46 [] c = "B" -> 66 [] c = "a" -> 97 [] c = "b" -> 98

RECURSIVE StrLess(_, _)
\* a < b on str: lexicographic by code point
StrLess(a, b) ==
    IF Len(b) = 0 THEN FALSE
    ELSE IF Len(a) = 0 THEN TRUE
    ELSE IF a[1] # b[1] THEN Ord(a[1]) < Ord(b[1])
    ELSE StrLess(Tail(a), Tail(b))

RECURSIVE Sorted(_)
\* sorted(S) for a collection S of distinct strings
Sorted(S) ==
    IF S = {} THEN <<>>
    ELSE LET m == CHOOSE x \in S : \A y \in S \ {x} : StrLess(x, y)
         IN  <<m>> \o Sorted(S \ {m})

\* a condition that forgets to skip hidden directories
IsSkillDir_NoHiddenCheck(p) == p.is_dir /\ p.has_skill_md

\* the condition of the generator: a non-hidden directory holding SKILL.md
IsSkillDir(p) == p.is_dir /\ ~StartsWith(p.name, <<".">>) /\ p.has_skill_md

\* sorted(p.name for p in root.iterdir() if ...)
list_skill_dirs(dir) == Sorted({p.name : p \in {q \in dir : IsSkillDir(q)}})

----------------------------------------------------------------------------
(* parse_frontmatter *)

Sentinel == <<"-","-","-">>

\* d[k] = v
DictSet(d, k, v) == [x \in (DOMAIN d) \cup {k} |-> IF x = k THEN v ELSE d[x]]

\* d.get(k, default)
DictGet(d, k, default) == IF k \in DOMAIN d THEN d[k] ELSE default

\* a search that takes the end of the file for a missing closing line
FindEnd_EndOfFile(lines) ==
    LET hits == {i \in 2..Len(lines) : Strip(lines[i]) = Sentinel}
    IN  IF hits = {} THEN Len(lines) + 1 ELSE CHOOSE i \in hits : \A j \in hits : i <= j

\* index of the first line after line 0 that strips to "---"; 0 for None
\* (lines are numbered from 1 here, so line 0 of the code is lines[1])
FindEnd(lines) ==
    LET hits == {i \in 2..Len(lines) : Strip(lines[i]) = Sentinel}
    IN  IF hits = {} THEN 0 ELSE CHOOSE i \in hits : \A j \in hits : i <= j

\* an iteration that keeps the first value of a repeated key
AddLine_FirstWins(data, line) ==
    IF ~Contains(<<":">>, line) THEN data
    ELSE LET kv == SplitOnce(line, ":")
         IN  IF Strip(kv[1]) \in DOMAIN data THEN data
             ELSE DictSet(data, Strip(kv[1]), Strip(kv[2]))

\* one iteration of `for line in lines[1:end_idx]`
AddLine(data, line) ==
    IF ~Contains(<<":">>, line) THEN data
    ELSE LET kv == SplitOnce(line, ":")
         IN  DictSet(data, Strip(kv[1]), Strip(kv[2]))

RECURSIVE Collect(_, _)
Collect(data, block) ==
    IF Len(block) = 0 THEN data
    ELSE Collect(AddLine(data, block[1]), Tail(block))

\* parse_frontmatter on a file holding txt
parse_frontmatter(txt) ==
    LET lines == SplitLines(txt)
    IN  IF Len(lines) = 0 \/ Strip(lines[1]) # Sentinel THEN <<>>
        ELSE LET e == FindEnd(lines)
             IN  IF e = 0 THEN <<>>
                 ELSE Collect(<<>>, SubSeq(lines, 2, e - 1))

----------------------------------------------------------------------------
(* build_skills_table *)

Header1 == <<"|"," ","S","k","i","l","l"," ","|"," ","D","e","s","c","r","i","p","t","i","o","n"," ","|"," ","I","n","s","t","a","l","l"," ","C","o","m","m","a","n","d"," ","|">>
Header2 == <<"|","-","-","-","-","-","-","-","|","-","-","-","-","-","-","-","-","-","-","-","-","-","|","-","-","-","-","-","-","-","-","-","-","-","-","-","-","-","-","-","|">>
KeyName == <<"n","a","m","e">>
KeyDescription == <<"d","e","s","c","r","i","p","t","i","o","n">>

\* the character U+0060, which a TLA+ string cannot hold
Backtick == "backtick"

\* the text of root / name / "SKILL.md"
SkillText(dir, name) == (CHOOSE p \in dir : p.name = name).text

\* f'`bunx skills add {repo} --skill "{skill_name}"`'
InstallCmd(rp, skill_name) ==
    <<Backtick,"b","u","n","x"," ","s","k","i","l","l","s"," ","a","d","d"," ">> \o rp
        \o <<" ","-","-","s","k","i","l","l"," ","\"">> \o skill_name \o <<"\"",Backtick>>

\* the row appended for one skill directory
Row(dir, name, rp) ==
    LET fm == parse_frontmatter(SkillText(dir, name))
        skill_name == DictGet(fm, KeyName, name)
        description == Strip(DictGet(fm, KeyDescription, <<>>))
    IN  <<"|"," ","[">> \o skill_name \o <<"]","(">> \o name \o <<")"," ","|"," ">>
            \o description \o <<" ","|"," ">> \o InstallCmd(rp, skill_name) \o <<" ","|">>

build_skills_table(dir, names, rp) ==
    <<Header1, Header2>> \o [i \in 1..Len(names) |-> Row(dir, names[i], rp)]

----------------------------------------------------------------------------
(* Specification SpecSplice: update_readme called repeatedly on one README, *)
(* with arbitrary generated lines.                                         *)

\* A README: up to MaxMarkers markers in any order, with other text in all,
\* none, or every other one of the places before, between and after them.
Filler == <<"x", NL>>

Fillings(n) ==
    {[i \in 1..n |-> b] : b \in BOOLEAN}
        \cup {[i \in 1..n |-> (i % 2 = k)] : k \in {0, 1}}

RECURSIVE Interleave(_, _)
Interleave(ms, fill) ==
    (IF fill[1] THEN Filler ELSE <<>>)
        \o (IF Len(ms) = 0 THEN <<>>
            ELSE ms[1] \o Interleave(Tail(ms), Tail(fill)))

Docs ==
    UNION {{Interleave(ms, fill) : fill \in Fillings(Len(ms) + 1)}
           : ms \in SeqsUpTo({TABLE_START, TABLE_END}, MaxMarkers)}

LineChoices == {<<"a">>, TABLE_END}
LineLists == SeqsUpTo(LineChoices, MaxLines)

Idle ==
    /\ git = [ok |-> TRUE, url |-> <<>>]
    /\ repo = <<>>
    /\ root_exists = TRUE
    /\ entries = {}
    /\ skill_names = <<>>
    /\ text = <<>>
    /\ frontmatter = <<>>

InitSplice ==
    /\ readme \in Docs
    /\ readme_exists = TRUE
    /\ content = <<>>
    /\ table_lines = <<>>
    /\ pc = "start"
    /\ err = "none"
    /\ before = readme
    /\ log = <<>>
    /\ runs = 0
    /\ Idle

\* The body of update_readme(readme_path, lines): read the README, check the
\* markers, splice and write; ok and failed are the positions it leaves the
\* caller in.
UpdateReadmeBody(lines, ok, failed) ==
    IF ~readme_exists
    THEN /\ pc' = failed
         /\ err' = "FileNotFoundError"
         /\ UNCHANGED <<readme, readme_exists, content, log>>
    ELSE LET r == update_readme(readme, lines) IN
         /\ content' = readme
         /\ readme' = IF r.written THEN r.text ELSE readme
         /\ err' = r.raised
         /\ pc' = IF r.raised = "none" THEN ok ELSE failed
         /\ log' = IF r.written THEN log \o <<"read README", "write README">>
                   ELSE log \o <<"read README">>
         /\ UNCHANGED readme_exists

\* update_readme called on its own with the given lines
CallUpdateReadme(lines) ==
    /\ runs < MaxRuns
    /\ pc \in {"start", "returned", "raised"}
    /\ readme_exists
    /\ before' = readme
    /\ table_lines' = lines
    /\ runs' = runs + 1
    /\ UpdateReadmeBody(lines, "returned", "raised")
    /\ UNCHANGED <<mainVars, parseVars>>

NextSplice == \E lines \in LineLists : CallUpdateReadme(lines)

SpecSplice == InitSplice /\ [][NextSplice]_vars

----------------------------------------------------------------------------
(* Specification SpecParse: parse_frontmatter applied to one file *)

FileLines == {Sentinel, <<" ","-","-","-"," ">>, <<"k",":"," ","v">>,
              <<"k",":","w",":","x">>, <<" ","j"," ",":","u">>, <<"t","e","x","t">>}

FileTexts ==
    {Join(<<NL>>, ls) : ls \in SeqsUpTo(FileLines, MaxFileLines)}
        \cup {Join(<<NL>>, ls) \o <<NL>> : ls \in SeqsUpTo(FileLines, MaxFileLines)}

NoReadme ==
    /\ readme = <<>>
    /\ readme_exists = FALSE
    /\ content = <<>>
    /\ table_lines = <<>>
    /\ before = <<>>

InitParse ==
    /\ text \in FileTexts
    /\ frontmatter = <<>>
    /\ pc = "parse"
    /\ err = "none"
    /\ log = <<>>
    /\ runs = 0
    /\ NoReadme
    /\ git = [ok |-> TRUE, url |-> <<>>]
    /\ repo = <<>>
    /\ root_exists = TRUE
    /\ entries = {}
    /\ skill_names = <<>>

\* parse_frontmatter(skill_md) on the file holding text
ParseFrontmatter ==
    /\ pc = "parse"
    /\ frontmatter' = parse_frontmatter(text)
    /\ pc' = "parsed"
    /\ log' = log \o <<"read SKILL.md">>
    /\ UNCHANGED <<fsVars, content, table_lines, err, before, runs, mainVars, text>>

NextParse == ParseFrontmatter

SpecParse == InitParse /\ [][NextParse]_vars

----------------------------------------------------------------------------
(* The steps of main *)

\* a lookup without check=True: a failing git is not noticed
GetRepoName_Unchecked ==
    /\ pc = "start"
    /\ log' = log \o <<"git remote get-url origin">>
    /\ repo' = get_repo_name(git.url)
    /\ pc' = "list"
    /\ err' = "none"
    /\ UNCHANGED <<fsVars, content, table_lines, before, runs, git, root_exists,
                   entries, skill_names, parseVars>>

\* repo = get_repo_name(): subprocess.run(..., check=True) raises when git fails
GetRepoName ==
    /\ pc = "start"
    /\ log' = log \o <<"git remote get-url origin">>
    /\ IF git.ok
       THEN /\ repo' = get_repo_name(git.url)
            /\ pc' = "list"
            /\ err' = "none"
       ELSE /\ pc' = "failed"
            /\ err' = "CalledProcessError"
            /\ UNCHANGED repo
    /\ UNCHANGED <<fsVars, content, table_lines, before, runs, git, root_exists,
                   entries, skill_names, parseVars>>

\* skill_names = list_skill_dirs(root): root.iterdir() raises when root is gone
ListSkillDirs ==
    /\ pc = "list"
    /\ log' = log \o <<"iterdir root">>
    /\ IF root_exists
       THEN /\ skill_names' = list_skill_dirs(entries)
            /\ pc' = "build"
            /\ err' = "none"
       ELSE /\ pc' = "failed"
            /\ err' = "FileNotFoundError"
            /\ UNCHANGED skill_names
    /\ UNCHANGED <<fsVars, content, table_lines, before, runs, git, repo,
                   root_exists, entries, parseVars>>

\* table_lines = build_skills_table(root, skill_names, repo): one SKILL.md is
\* read per skill name
BuildSkillsTable ==
    /\ pc = "build"
    /\ table_lines' = build_skills_table(entries, skill_names, repo)
    /\ log' = log \o [i \in 1..Len(skill_names) |-> "read SKILL.md"]
    /\ pc' = "update"
    /\ UNCHANGED <<fsVars, content, err, before, runs, mainVars, parseVars>>

\* update_readme(readme_path, table_lines)
UpdateReadme ==
    /\ pc = "update"
    /\ UpdateReadmeBody(table_lines, "print", "failed")
    /\ UNCHANGED <<table_lines, before, runs, mainVars, parseVars>>

\* print(f"Updated ...")
PrintSummary ==
    /\ pc = "print"
    /\ pc' = "done"
    /\ log' = log \o <<"print">>
    /\ UNCHANGED <<fsVars, content, table_lines, err, before, runs, mainVars, parseVars>>

\* the script is run again in the same directory
Rerun ==
    /\ pc \in {"done", "failed"}
    /\ runs < MaxRuns
    /\ runs' = runs + 1
    /\ pc' = "start"
    /\ err' = "none"
    /\ before' = readme
    /\ log' = <<>>
    /\ content' = <<>>
    /\ table_lines' = <<>>
    /\ repo' = <<>>
    /\ skill_names' = <<>>
    /\ UNCHANGED <<fsVars, git, root_exists, entries, parseVars>>

----------------------------------------------------------------------------
(* Specification SpecScan: list_skill_dirs on one directory listing *)

ScanNames == {<<".","a">>, <<"a">>, <<"a","b">>, <<"b">>, <<"B">>, <<"a",".","b">>}

\* what an entry under root can be: a file, a directory without SKILL.md,
\* a directory with SKILL.md
Kinds == {[is_dir |-> FALSE, has_skill_md |-> FALSE],
          [is_dir |-> TRUE, has_skill_md |-> FALSE],
          [is_dir |-> TRUE, has_skill_md |-> TRUE]}

DirListings ==
    UNION {{{[name |-> n, is_dir |-> k[n].is_dir, has_skill_md |-> k[n].has_skill_md,
              text |-> <<>>] : n \in N} : k \in [N -> Kinds]}
           : N \in {M \in SUBSET ScanNames : Cardinality(M) <= MaxEntries}}

Remotes == {
    <<"g","i","t","@","g","i","t","h","u","b",".","c","o","m",":","o","/","r",".","g","i","t","\n">>,
    <<"h","t","t","p","s",":","/","/","g","i","t","h","u","b",".","c","o","m","/","o","/","r",".","g","i","t","\n">>,
    <<"h","t","t","p","s",":","/","/","g","i","t","h","u","b",".","c","o","m","/","o","/","r","\n">>}

InitScan ==
    /\ entries \in DirListings
    /\ root_exists \in BOOLEAN
    /\ git \in {[ok |-> TRUE, url |-> u] : u \in Remotes}
    /\ repo = get_repo_name(git.url)
    /\ skill_names = <<>>
    /\ pc = "list"
    /\ err = "none"
    /\ log = <<"git remote get-url origin">>
    /\ runs = 1
    /\ NoReadme
    /\ text = <<>>
    /\ frontmatter = <<>>

NextScan == ListSkillDirs

SpecScan == InitScan /\ [][NextScan]_vars

----------------------------------------------------------------------------
(* Specification SpecMain: the script run in one directory *)

SkillWithFrontmatter == <<"-","-","-","\n","n","a","m","e",":"," ","N","\n","d","e","s","c","r","i","p","t","i","o","n",":"," ","d","\n","-","-","-","\n","b","o","d","y","\n">>
SkillWithoutFrontmatter == <<"n","o"," ","f","r","o","n","t","m","a","t","t","e","r","\n">>
SkillWithMarker == <<"-","-","-","\n","d","e","s","c","r","i","p","t","i","o","n",":"," ","<","!","-","-"," ","S","K","I","L","L","S","_","T","A","B","L","E","_","E","N","D"," ","-","-",">","\n","-","-","-","\n">>

MainEntries == {
    [name |-> <<"a">>, is_dir |-> TRUE, has_skill_md |-> TRUE, text |-> SkillWithFrontmatter],
    [name |-> <<"b">>, is_dir |-> TRUE, has_skill_md |-> TRUE, text |-> SkillWithoutFrontmatter],
    [name |-> <<"a","b">>, is_dir |-> TRUE, has_skill_md |-> TRUE, text |-> SkillWithMarker],
    [name |-> <<".","a">>, is_dir |-> TRUE, has_skill_md |-> TRUE, text |-> SkillWithFrontmatter],
    [name |-> <<"B">>, is_dir |-> FALSE, has_skill_md |-> FALSE, text |-> <<>>]}

MainDocs == {
    <<"x", NL>> \o TABLE_START \o <<"x", NL>> \o TABLE_END \o <<"x", NL>>,
    TABLE_END \o <<"x", NL>> \o TABLE_START,
    <<"x", NL>> \o TABLE_START,
    TABLE_END,
    <<"x", NL>>}

InitMain ==
    /\ readme_exists \in BOOLEAN
    /\ readme \in (IF readme_exists THEN MainDocs ELSE {<<>>})
    /\ content = <<>>
    /\ table_lines = <<>>
    /\ pc = "start"
    /\ err = "none"
    /\ before = readme
    /\ log = <<>>
    /\ runs = 1
    /\ git \in {[ok |-> TRUE, url |-> u] : u \in Remotes} \cup {[ok |-> FALSE, url |-> <<>>]}
    /\ repo = <<>>
    /\ root_exists \in BOOLEAN
    /\ entries \in SUBSET MainEntries
    /\ skill_names = <<>>
    /\ text = <<>>
    /\ frontmatter = <<>>

NextMain ==
    \/ GetRepoName
    \/ ListSkillDirs
    \/ BuildSkillsTable
    \/ UpdateReadme
    \/ PrintSummary
    \/ Rerun

SpecMain == InitMain /\ [][NextMain]_vars

----------------------------------------------------------------------------
(* Properties of update_readme, checked under SpecSplice *)

\* C1: whenever update_readme has written, the original splits into the text
\* up to and including its first start marker, a managed region, and the
\* text from its first end marker onward, and the written document keeps the
\* first and the last of these unchanged: only the region between differs.
C1_OnlyRegionChanges ==
    pc = "returned" =>
        LET s == start_idx(content)
            e == end_idx(content)
            tail == Len(content) - e
        IN  /\ s <= e
            /\ Slice(readme, 0, s) = Slice(content, 0, s)
            /\ SliceFrom(readme, Len(readme) - tail) = SliceFrom(content, e)

\* C2: update_readme writes only when the first start marker precedes the
\* first end marker; when the end marker comes first the call fails and the
\* README is left as it was.
C2_SpliceOnlyInOrder ==
    /\ pc = "returned" => Find(TABLE_START, content) < Find(TABLE_END, content)
    /\ (runs > 0 /\ Contains(TABLE_START, content) /\ Contains(TABLE_END, content)
            /\ Find(TABLE_END, content) < Find(TABLE_START, content))
        => (pc = "raised" /\ readme = content)

\* C3: a successful update_readme followed by another successful
\* update_readme with the same lines leaves the README as the first wrote it.
C3_Idempotent ==
    [][(pc = "returned" /\ pc' = "returned" /\ table_lines' = table_lines)
        => readme' = readme]_vars

\* C4: when the text read lacks the start marker or the end marker, the call
\* ends with RuntimeError, nothing was written and README.md is as it was.
C4_MissingMarkerFails ==
    (runs > 0 /\ (~Contains(TABLE_START, content) \/ ~Contains(TABLE_END, content))) =>
        /\ pc = "raised"
        /\ err = "RuntimeError"
        /\ readme = before
        /\ readme = content
        /\ \A i \in 1..Len(log) : log[i] # "write README"

C4_Witness ==
    /\ pc = "raised"
    /\ Contains(TABLE_START, content)
    /\ ~Contains(TABLE_END, content)
    /\ table_lines # <<>>

\* C9: after update_readme has written, the text from the end of the first
\* start marker of the README up to the end marker carried over from the
\* original is one newline, the lines joined by newlines, and one newline.
C9_RegionIsJoinedLines ==
    pc = "returned" =>
        LET s == Find(TABLE_START, readme) + Len(TABLE_START)
            e == Len(readme) - (Len(content) - Find(TABLE_END, content))
        IN  /\ SubSeq(readme, s + 1, e) = <<NL>> \o Join(<<NL>>, table_lines) \o <<NL>>
            /\ SubSeq(readme, e + 1, e + Len(TABLE_END)) = TABLE_END

C9_Witness ==
    /\ pc = "returned"
    /\ table_lines = <<(<<"a">>), (<<"a">>)>>
    /\ Find(TABLE_START, content) > 0
    /\ end_idx(content) > start_idx(content)
    /\ Len(content) > end_idx(content) + Len(TABLE_END)

\* C10: once a call has returned, every later call returns too, and a README
\* that holds both markers holds both after any call.
C10_MarkersRetained ==
    [][/\ pc = "returned" => pc' = "returned"
       /\ (Contains(TABLE_START, readme) /\ Contains(TABLE_END, readme))
            => (Contains(TABLE_START, readme') /\ Contains(TABLE_END, readme'))]_vars

C10_Witness ==
    /\ runs = MaxRuns
    /\ pc = "returned"
    /\ Contains(TABLE_START, readme)
    /\ Contains(TABLE_END, readme)
    /\ before # readme

----------------------------------------------------------------------------
(* Properties of main, checked under SpecMain *)

\* C5: in a run of main README.md is written at most once; the write comes
\* after the remote lookup, the directory scan, one SKILL.md read per skill
\* and the README read, all of which succeeded, and only the print follows
\* it; a run that failed has left README.md as it was.
C5_WriteLastAndOnce ==
    LET W == {i \in 1..Len(log) : log[i] = "write README"}
    IN  /\ Cardinality(W) <= 1
        /\ \A i \in W :
              /\ \A j \in (i + 1)..Len(log) : log[j] = "print"
              /\ git.ok
              /\ root_exists
              /\ SubSeq(log, 1, i - 1) =
                    <<"git remote get-url origin", "iterdir root">>
                        \o [k \in 1..Len(skill_names) |-> "read SKILL.md"]
                        \o <<"read README">>
              /\ Len(table_lines) = Len(skill_names) + 2
        /\ pc = "failed" => (W = {} /\ readme = before)
        /\ readme # before => W # {}

C5_Witness ==
    /\ pc = "done"
    /\ readme # before
    /\ Len(skill_names) >= 2

----------------------------------------------------------------------------
(* Properties of parse_frontmatter, checked under SpecParse *)

\* C6 as stated: the mapping is empty, and nothing is raised, whenever line 0
\* is not exactly "---" or no later line is exactly "---".
C6_EmptyUnlessExactSentinels ==
    pc = "parsed" =>
        LET lines == SplitLines(text)
        IN  (\/ Len(lines) = 0
             \/ lines[1] # Sentinel
             \/ \A i \in 2..Len(lines) : lines[i] # Sentinel)
            => (frontmatter = <<>> /\ err = "none")

\* C6 amended: the mapping is empty, and nothing is raised, whenever line 0
\* with surrounding whitespace removed is not "---" or no later line with
\* surrounding whitespace removed is "---"; keys are returned only when both
\* such lines exist.
C6_EmptyUnlessSentinels ==
    pc = "parsed" =>
        LET lines == SplitLines(text)
            missing == \/ Len(lines) = 0
                       \/ Strip(lines[1]) # Sentinel
                       \/ \A i \in 2..Len(lines) : Strip(lines[i]) # Sentinel
        IN  /\ err = "none"
            /\ missing => frontmatter = <<>>
            /\ DOMAIN frontmatter # {} => ~missing

C6_Witness ==
    /\ pc = "parsed"
    /\ frontmatter = <<>>
    /\ LET lines == SplitLines(text)
       IN  /\ Len(lines) >= 2
           /\ Strip(lines[1]) = Sentinel
           /\ \A i \in 2..Len(lines) : Strip(lines[i]) # Sentinel
           /\ \E i \in 2..Len(lines) : Contains(<<":">>, lines[i])

----------------------------------------------------------------------------
(* Properties of list_skill_dirs, checked under SpecScan *)

\* C8: list_skill_dirs returns, in strictly increasing lexicographic order,
\* exactly the names of the entries under root that are directories, do not
\* start with '.', and hold SKILL.md.
C8_ExactlySkillDirsSorted ==
    pc = "build" =>
        /\ \A i \in 1..(Len(skill_names) - 1) : StrLess(skill_names[i], skill_names[i + 1])
        /\ {skill_names[i] : i \in 1..Len(skill_names)} =
              {p.name : p \in {q \in entries :
                                  q.is_dir /\ q.name[1] # "." /\ q.has_skill_md}}

C8_Witness ==
    /\ pc = "build"
    /\ Len(skill_names) = 2
    /\ \E p \in entries : p.name[1] = "." /\ p.is_dir /\ p.has_skill_md

====
